---- MODULE Spec2Model ----
(***************************************************************************)
(* Model of server.py: the module-level token cache (access_token,         *)
(* token_expiry), get_access_token and make_api_request, run as            *)
(* cooperatively scheduled coroutines.  One action is the code a           *)
(* coroutine runs between two suspension points (await / async with).      *)
(***************************************************************************)
EXTENDS Integers, FiniteSets, Sequences, TLC

\* ---------------------------------------------------------------- bounds
NumCalls == 2     \* coroutines (tool calls) that may be in flight together
MaxTime  == 1     \* the clock runs over 0..MaxTime (seconds)
MaxLife  == 1     \* expires_in ranges up to BUFFER + MaxLife

\* ------------------------------------------------------ program constants
BUFFER == 60      \* "Buffer of 60 seconds"

Calls  == 1..NumCalls

\* Bearer strings the provider may hand out: opaque and non-empty, compared
\* only for equality.
Tokens == {"tokA", "tokB"}

\* Python None; a present value v is written <<v>>.
None == << >>
Some(v) == <<v>>
Opt(S) == {None} \cup {Some(v) : v \in S}

\* expires_in values the provider may report (seconds).
ExpiresIn == BUFFER..(BUFFER + MaxLife)

\* HTTP status codes the token endpoint and the bank API may answer with.
TokenStatuses == {200, 201, 401}
ApiStatuses   == {200, 201, 404}

\* Methods a caller passes to make_api_request; Direct stands for a caller
\* that awaits get_access_token() itself.
Direct  == "get_access_token"
Methods == {"GET", "post", "PUT"}

\* Raw response bodies of the bank API.
RawBodies == {"{\"data\": 1}", ""}

\* A token endpoint answer: transport failure, or a status with a body that
\* is not JSON, or with a JSON object that carries neither key (an error
\* document), or a 200 or 201 with a JSON object whose keys may be missing
\* (None).
TokenResponses ==
    [transport_ok : {FALSE}, status : {0}, json : {FALSE},
     access_token : {None}, expires_in : {None}]
    \cup
    [transport_ok : {TRUE}, status : TokenStatuses, json : BOOLEAN,
     access_token : {None}, expires_in : {None}]
    \cup
    [transport_ok : {TRUE}, status : {200, 201}, json : {TRUE},
     access_token : Opt(Tokens), expires_in : Opt(ExpiresIn)]

ApiResponses ==
    [transport_ok : {FALSE}, status : {0}, body : {""}]
    \cup
    [transport_ok : {TRUE}, status : ApiStatuses, body : RawBodies]

VARIABLES
    access_token,   \* module global, None or <<token>>
    token_expiry,   \* module global, None or <<time>>
    now,            \* datetime.now()
    pc,             \* per coroutine: where it is suspended
    loc,            \* per coroutine: its local variables and its outcome
    paired          \* history: token_expiry was computed from the response
                    \* that delivered access_token

vars == <<access_token, token_expiry, now, pc, loc, paired>>

\* ------------------------------------------------------- pure functions

\* if access_token and token_expiry and token_expiry > current_time
CacheValidGE(tok, exp, current_time) ==
    tok # None /\ exp # None /\ exp[1] >= current_time

CacheValid(tok, exp, current_time) ==
    tok # None /\ exp # None /\ exp[1] > current_time

\* datetime.now() + timedelta(seconds=result["expires_in"] - 60)
ExpiryNoBuffer(t, expires_in) == t + expires_in

ExpiryOf(t, expires_in) == t + expires_in - BUFFER

\* httpx Response.raise_for_status passes exactly for 2xx
IsSuccess200(status) == status = 200

IsSuccess(status) == status >= 200 /\ status <= 299

\* method.upper()
Upper(m) ==
    CASE m = "GET"  -> "GET"
      [] m = "get"  -> "GET"
      [] m = "POST" -> "POST"
      [] m = "post" -> "POST"
      [] m = "PUT"  -> "PUT"
      [] m = "put"  -> "PUT"
      [] OTHER      -> m

\* response.json(): the parsed value, or None when decoding raises
ParseJson(raw) ==
    CASE raw = "{\"data\": 1}" -> Some(1)
      [] OTHER                 -> None

\* headers = {"Authorization": f"Bearer {token}", ...}: the token carried
BearerStale(token, result_token) == result_token

Bearer(token, result_token) == token

\* ------------------------------------------------------------ outcomes
Ret(kind, status, val) == [kind |-> kind, status |-> status, val |-> val]
NoRet == Ret("none", 0, None)

Locals0 ==
    [method       |-> Direct,
     result_token |-> None,    \* result["access_token"] of the own response
                               \* (a direct caller's outcome keeps it as
                               \* history)
     token        |-> None,    \* what get_access_token() returned
     bearer       |-> None,    \* token carried by the bank API request
     ret          |-> NoRet]

Init ==
    /\ access_token = None
    /\ token_expiry = None
    /\ now = 0
    /\ pc = [c \in Calls |-> "idle"]
    /\ loc = [c \in Calls |-> Locals0]
    /\ paired = TRUE

\* A coroutine that has finished: its frame is gone, what is left is its
\* outcome (the value returned or the exception raised).
Finished(ret) == [Locals0 EXCEPT !.ret = ret]

\* The caller's code once get_access_token() has returned tok: a direct
\* caller is done; make_api_request builds the headers and dispatches on
\* the method.  Gives the coroutine's next position and locals.
AfterToken(l, tok) ==
    IF l.method = Direct
    THEN [pc |-> "done",
          loc |-> [Finished(Ret("token", 0, tok))
                      EXCEPT !.result_token = l.result_token]]
    ELSE IF Upper(l.method) \in {"GET", "POST"}
    THEN [pc |-> "await_api",
          loc |-> [l EXCEPT !.token = tok,
                            !.result_token = None,
                            !.bearer = Bearer(tok, l.result_token)]]
    ELSE [pc |-> "failed", loc |-> Finished(Ret("ValueError", 0, None))]

\* A call starts: get_access_token checks the cache; on a hit it returns
\* without suspending and the caller runs on to its next await; on a miss
\* it posts the token request and suspends.
Start(c, m) ==
    /\ pc[c] = "idle"
    /\ LET l0 == [Locals0 EXCEPT !.method = m] IN
       IF CacheValid(access_token, token_expiry, now)
       THEN LET n == AfterToken(l0, access_token) IN
            /\ pc' = [pc EXCEPT ![c] = n.pc]
            /\ loc' = [loc EXCEPT ![c] = n.loc]
       ELSE /\ pc' = [pc EXCEPT ![c] = "await_token"]
            /\ loc' = [loc EXCEPT ![c] = l0]
    /\ UNCHANGED <<access_token, token_expiry, now, paired>>

Fail(c, ret) ==
    /\ pc' = [pc EXCEPT ![c] = "failed"]
    /\ loc' = [loc EXCEPT ![c] = Finished(ret)]

\* The token endpoint's answer r arrives and is processed up to the exit
\* of the "async with" block.
TokenResponse(c, r) ==
    /\ pc[c] = "await_token"
    /\ UNCHANGED now
    /\ IF ~r.transport_ok
       THEN /\ Fail(c, Ret("TransportError", 0, None))
            /\ UNCHANGED <<access_token, token_expiry, paired>>
       ELSE IF ~IsSuccess(r.status)
       THEN /\ Fail(c, Ret("HTTPStatusError", r.status, None))
            /\ UNCHANGED <<access_token, token_expiry, paired>>
       ELSE IF ~r.json
       THEN /\ Fail(c, Ret("JSONDecodeError", 0, None))
            /\ UNCHANGED <<access_token, token_expiry, paired>>
       ELSE IF r.access_token = None
       THEN /\ Fail(c, Ret("KeyError", 0, None))
            /\ UNCHANGED <<access_token, token_expiry, paired>>
       ELSE IF r.expires_in = None
       THEN /\ access_token' = r.access_token
            /\ UNCHANGED token_expiry
            /\ paired' = FALSE
            /\ Fail(c, Ret("KeyError", 0, None))
       ELSE /\ access_token' = r.access_token
            /\ token_expiry' = Some(ExpiryOf(now, r.expires_in[1]))
            /\ paired' = TRUE
            /\ pc' = [pc EXCEPT ![c] = "closing"]
            /\ loc' = [loc EXCEPT ![c].result_token = r.access_token]

\* The "async with" block has been left: return access_token (the global),
\* and the caller runs on to its next await.
Close(c) ==
    /\ pc[c] = "closing"
    /\ LET n == AfterToken(loc[c], access_token) IN
       /\ pc' = [pc EXCEPT ![c] = n.pc]
       /\ loc' = [loc EXCEPT ![c] = n.loc]
    /\ UNCHANGED <<access_token, token_expiry, now, paired>>

\* The bank API's answer r arrives: raise_for_status, then response.json().
ApiResponse(c, r) ==
    /\ pc[c] = "await_api"
    /\ IF ~r.transport_ok
       THEN Fail(c, Ret("TransportError", 0, None))
       ELSE IF ~IsSuccess(r.status)
       THEN Fail(c, Ret("HTTPStatusError", r.status, None))
       ELSE IF ParseJson(r.body) = None
       THEN Fail(c, Ret("JSONDecodeError", 0, None))
       ELSE /\ pc' = [pc EXCEPT ![c] = "done"]
            /\ loc' = [loc EXCEPT ![c] =
                         Finished(Ret("json", 0, ParseJson(r.body)))]
    /\ UNCHANGED <<access_token, token_expiry, now, paired>>

\* The caller has taken the outcome; the coroutine slot is free again.
Return(c) ==
    /\ pc[c] \in {"done", "failed"}
    /\ pc' = [pc EXCEPT ![c] = "idle"]
    /\ loc' = [loc EXCEPT ![c] = Locals0]
    /\ UNCHANGED <<access_token, token_expiry, now, paired>>

\* Time passes.
Tick ==
    /\ now < MaxTime
    /\ now' = now + 1
    /\ UNCHANGED <<access_token, token_expiry, pc, loc, paired>>

\* Callers that await get_access_token() themselves.
NextAuth ==
    \/ \E c \in Calls : Start(c, Direct)
    \/ \E c \in Calls, r \in TokenResponses : TokenResponse(c, r)
    \/ \E c \in Calls : Close(c)
    \/ \E c \in Calls : Return(c)
    \/ Tick

\* Callers of make_api_request (the tools).
NextApi ==
    \/ \E c \in Calls, m \in Methods : Start(c, m)
    \/ \E c \in Calls, r \in TokenResponses : TokenResponse(c, r)
    \/ \E c \in Calls : Close(c)
    \/ \E c \in Calls, r \in ApiResponses : ApiResponse(c, r)
    \/ \E c \in Calls : Return(c)
    \/ Tick

Next == NextAuth \/ NextApi

Spec     == Init /\ [][Next]_vars
SpecAuth == Init /\ [][NextAuth]_vars
SpecApi  == Init /\ [][NextApi]_vars

\* ================================================================ claims

\* A cached token exists and now < token_expiry.
CachedTokenValid ==
    access_token # None /\ token_expiry # None /\ now < token_expiry[1]

Cred == <<access_token, token_expiry>>

\* Methods that are GET or POST whatever their case.
GetOrPost == {"GET", "get", "POST", "post"}

\* Call c starts in this step / get_access_token returns for c in this step.
Starts(c) == pc[c] = "idle" /\ pc'[c] # "idle"
Closes(c) == pc[c] = "closing" /\ pc'[c] # "closing"

\* In the state after the step, get_access_token has handed tok to c.
Handed(c, tok) ==
    /\ pc'[c] = "done" => loc'[c].ret = Ret("token", 0, tok)
    /\ pc'[c] = "await_api" => loc'[c].token = tok

\* C1: calls that are in flight together while no valid token is cached
\* share one token request: never are two token requests outstanding at
\* once.
C1_RefreshCollapse ==
    Cardinality({c \in Calls : pc[c] = "await_token"}) <= 1

\* C2: at every observation point access_token and token_expiry are both
\* unset, or both set with token_expiry computed from the response that
\* delivered access_token.
C2_CredentialPair ==
    \/ access_token = None /\ token_expiry = None
    \/ access_token # None /\ token_expiry # None /\ paired

\* C3: a token request that ends in a transport failure or in any status
\* other than 200 makes the call fail and leaves access_token and
\* token_expiry as they were.  (Stated for answers whose JSON body is
\* complete; a body without expires_in is the case of C4.)
C3_FailureNonCaching ==
    [][\A c \in Calls, r \in TokenResponses :
          (/\ ~r.transport_ok \/ r.status # 200
           /\ r.json => (r.access_token # None /\ r.expires_in # None)
           /\ TokenResponse(c, r))
          => (pc'[c] = "failed" /\ UNCHANGED Cred)]_vars

\* C4: a 200 answer carrying access_token but no expires_in makes the call
\* fail and leaves access_token and token_expiry as they were.
C4_MalformedNotCached ==
    [][\A c \in Calls, r \in TokenResponses :
          (/\ r.transport_ok /\ r.status = 200 /\ r.json
           /\ r.access_token # None /\ r.expires_in = None
           /\ TokenResponse(c, r))
          => (pc'[c] = "failed" /\ UNCHANGED Cred)]_vars

\* C5: a starting call is served the cached token, with no token request,
\* exactly when a cached token exists and now < token_expiry; otherwise
\* (also at now = token_expiry) it issues a token request.
C5_CacheDecisionRule ==
    [][\A c \in Calls : Starts(c) =>
          /\ (pc'[c] # "await_token" /\ Handed(c, access_token))
                <=> CachedTokenValid
          /\ pc'[c] = "await_token" <=> ~CachedTokenValid]_vars

\* A call has been served from the cache (it made no request of its own)
\* and holds the token that is cached and still valid.
C5_Witness ==
    \E c \in Calls :
        /\ pc[c] = "done"
        /\ loc[c].result_token = None
        /\ loc[c].ret = Ret("token", 0, access_token)
        /\ CachedTokenValid

\* C6: a call started with no valid cached token issues one token request
\* and no second one, and on a successful answer stores the answer's token
\* and returns that token of its own answer.  (The return is stated for a
\* cache that no incomplete answer has touched; that case is C4's.)
C6_RefreshOnExpiry ==
    [][\A c \in Calls :
          /\ (Starts(c) /\ ~CachedTokenValid) => pc'[c] = "await_token"
          /\ pc[c] = "await_token"
                => pc'[c] \in {"await_token", "closing", "failed"}
          /\ (pc[c] = "await_token" /\ pc'[c] = "closing")
                => access_token' = loc'[c].result_token
          /\ (Closes(c) /\ paired) => Handed(c, loc[c].result_token)]_vars

\* C7: a successful token answer with expires_in = E, processed at time t,
\* sets token_expiry to t + E - 60 and not to t + E; a call starting at or
\* after that time is not served from the cache.
C7_ExpiryMargin ==
    [][/\ \A c \in Calls, r \in TokenResponses :
             (/\ pc[c] = "await_token" /\ pc'[c] = "closing"
              /\ r.expires_in # None /\ TokenResponse(c, r))
             => /\ token_expiry' = Some(now + r.expires_in[1] - 60)
                /\ token_expiry' # Some(now + r.expires_in[1])
       /\ \A c \in Calls :
             (Starts(c) /\ token_expiry # None /\ now >= token_expiry[1])
             => pc'[c] = "await_token"]_vars

\* A token stored by an answer with expires_in = 61 that is being processed
\* now: it expires one second from now.
C7_Witness ==
    \E c \in Calls :
        /\ pc[c] = "closing"
        /\ paired
        /\ access_token = loc[c].result_token
        /\ token_expiry = Some(now + 1)

\* C8: a GET or POST invocation that holds a token issues its bank API
\* request; the answer ends the invocation with no second attempt: a
\* status outside 2xx as a failure carrying that status, a 2xx status with
\* a JSON body as the parsed body.
C8_NonSuccessPropagation ==
    [][\A c \in Calls :
          /\ \A r \in ApiResponses :
                (pc[c] = "await_api" /\ pc'[c] # "await_api"
                    /\ ApiResponse(c, r)) =>
                /\ (r.transport_ok /\ (r.status < 200 \/ r.status > 299))
                      => /\ pc'[c] = "failed"
                         /\ loc'[c].ret = Ret("HTTPStatusError", r.status, None)
                /\ (r.transport_ok /\ r.status \in 200..299
                       /\ r.body = "{\"data\": 1}")
                      => /\ pc'[c] = "done"
                         /\ loc'[c].ret = Ret("json", 0, Some(1))
          /\ pc[c] = "await_api" => pc'[c] \in {"await_api", "done", "failed"}
          /\ (Closes(c) /\ loc[c].method \in GetOrPost)
                => pc'[c] = "await_api"
          /\ \A m \in Methods \cap GetOrPost :
                (Starts(c) /\ CachedTokenValid /\ Start(c, m))
                => pc'[c] = "await_api"]_vars

\* An invocation has failed with the bank API's 404.
C8_Witness ==
    \E c \in Calls :
        /\ pc[c] = "failed"
        /\ loc[c].ret = Ret("HTTPStatusError", 404, None)

\* C9: an invocation whose method is neither GET nor POST never has a
\* request in flight, neither to the token endpoint nor to the bank API
\* (so it cannot change access_token or token_expiry either).
C9_UnsupportedFailsFast ==
    \A c \in Calls :
        pc[c] \in {"await_token", "closing", "await_api"}
        => (loc[c].method = Direct \/ loc[c].method \in GetOrPost)

\* C10: a bank API request is issued only in the step in which
\* get_access_token returns to the invocation (from the cache at the start,
\* or after its own refresh), and carries the token returned; an invocation
\* whose token request fails ends with that error and no bank API request.
C10_TokenBeforeRequest ==
    [][\A c \in Calls :
          /\ (pc[c] # "await_api" /\ pc'[c] = "await_api") =>
                /\ pc[c] \in {"idle", "closing"}
                /\ pc[c] = "idle" => CachedTokenValid
                /\ access_token # None
                /\ loc'[c].token = access_token
                /\ loc'[c].bearer = loc'[c].token
          /\ (pc[c] = "await_api" /\ pc'[c] = "await_api")
                => loc'[c] = loc[c]
          /\ (pc[c] = "await_token" /\ pc'[c] \notin {"await_token", "closing"})
                => /\ pc'[c] = "failed"
                   /\ loc'[c].ret.kind \in {"TransportError", "HTTPStatusError",
                                            "JSONDecodeError", "KeyError"}]_vars

\* A bank API request in flight with the returned token as bearer, while
\* another invocation is still waiting for the token endpoint.
C10_Witness ==
    \E c, d \in Calls :
        /\ pc[c] = "await_api"
        /\ loc[c].token # None
        /\ loc[c].bearer = loc[c].token
        /\ pc[d] = "await_token"

====
